---- MODULE Spec2Model ----
(***************************************************************************)
(* Model of the reporting CRM (aizaradnan/crm01).                          *)
(*                                                                         *)
(* Spec        : the Express server (src/server/src/index.ts) as a state   *)
(*               machine over the DailyRecord table and lastImportBackup.  *)
(* SpecFunnel  : GET /api/funnel-metrics of the Express server, applied to *)
(*               queries drawn from a window of days, in three time zones. *)
(* SpecDash    : the date range of the Dashboard and Auto Analysis pages   *)
(*               (DateRangePicker presets and date inputs) and the periods *)
(*               fetchData requests from /api/summary.                     *)
(* SpecAuth    : the routes that write, behind authenticateToken and       *)
(*               requireAdmin, with POST /api/reports.                     *)
(* SpecDiag    : the sale diagnosis of the Auto Analysis page.             *)
(* SpecRace    : confirm import split at its awaits, with POST            *)
(*               /api/records handled in between.                          *)
(* SpecSheet   : import preview applied to sheets of up to MaxRows rows.   *)
(* SpecReports : publishing report versions from the Auto Analysis page.   *)
(* SpecWorker  : GET /api/funnel-metrics of the Worker (unnamed/part_000). *)
(* SpecSummary : GET /api/summary over records posted and imported.        *)
(*                                                                         *)
(* Calendar.  A calendar date is a day number, day 0 being 2026-01-01; a   *)
(* 'YYYY-MM-DD' string and the day number it denotes are the same thing.   *)
(* A 'YYYY-MM' month string is the month number 1..3 of 2026.  Every       *)
(* DailyRecord.date the server stores is a UTC midnight (setUTCHours in    *)
(* POST /api/records, Date.UTC in parseExcelDate), so a stored date is a   *)
(* day number.  The server host is taken to run in UTC, so that its local  *)
(* getMonth()/new Date(y, m, 1) agree with the UTC day numbers.            *)
(*                                                                         *)
(* Time.  A Date is [d, ms]: the UTC day number and the milliseconds since *)
(* UTC midnight.  Local time is UTC plus the fixed offset tz; daylight     *)
(* saving changes are not modelled.                                        *)
(*                                                                         *)
(* Numbers.  Money and counts are integers; a quotient is kept as an exact *)
(* fraction (Rat) and compared by cross-multiplication.                    *)
(***************************************************************************)
EXTENDS Integers, Sequences, FiniteSets, TLC

VARIABLES
    records,            \* the DailyRecord table: a set of rows
    nextId,             \* the next AUTOINCREMENT id of DailyRecord
    lastImportBackup,   \* <<>> (null) or <<[month, records, importedIds]>>
    req,                \* the request handled last
    resp,               \* the response sent last
    tz,                 \* time zone of the host, ms east of UTC
    funnel,             \* GET /api/funnel-metrics: the last query and its periods
    dash,               \* Dashboard / Auto Analysis page: clock, dateRange and
                        \* the /api/summary requests of its last fetchData
    reports,            \* the AnalysisReport table: the rows in creation order
    job,                \* a confirm import between two of its awaits
    analysis,           \* Auto Analysis page: dateRange key and currentVersion
    diag,               \* Auto Analysis page: the summaries and their diagnosis
    sheet,              \* the file and the answer of the last import preview
    worker              \* GET /api/funnel-metrics of the Worker: the last query

vars == <<records, nextId, lastImportBackup, req, resp, tz, funnel, dash,
          reports, job, analysis, diag, sheet, worker>>

serverVars == <<records, nextId, lastImportBackup, req, resp>>

moreVars == <<reports, job, analysis, diag, sheet, worker>>

----------------------------------------------------------------------------
(* Bounds *)

MaxId == 2          \* ids handed out by the table: 1..MaxId
MaxQueryDay == 5    \* last day a funnel-metrics query names
MaxDaysBack == 50   \* earliest day the date inputs reach: day -MaxDaysBack
MaxReports == 4     \* rows of the AnalysisReport table
MaxRows == 3        \* rows below the header of an uploaded sheet

----------------------------------------------------------------------------
(* Calendar *)

\* First day of the months 2026-01 .. 2026-04.
MonthStart == <<0, 31, 59, 90>>

Months == {1, 2}

\* getMonth()+1 of a stored date (2026 only).
MonthOf(d) == CHOOSE m \in 1..3 : MonthStart[m] <= d /\ d < MonthStart[m + 1]

\* Dates used by the requests of Spec: 2026-01-01, 2026-01-02, 2026-02-01.
Days == {0, 1, 31}

----------------------------------------------------------------------------
(* Dates *)

\* 1000 * 60 * 60 * 24
DAY == 86400000

TZOffsets == {0 - 5 * 3600000, 0, 8 * 3600000}

Norm(d, ms) == [d |-> d + (ms \div DAY), ms |-> ms % DAY]

\* new Date('YYYY-MM-DD'): UTC midnight of the day.
DateOf(day) == [d |-> day, ms |-> 0]

\* a.getTime() <= b.getTime()
TLe(a, b) == a.d < b.d \/ (a.d = b.d /\ a.ms <= b.ms)

\* a.getTime() - b.getTime(), as whole days and milliseconds
TDiff(a, b) == Norm(a.d - b.d, a.ms - b.ms)

\* new Date(t.getTime() - dur)
TMinus(t, dur) == Norm(t.d - dur.d, t.ms - dur.ms)

\* The local calendar day of t in the zone z (getFullYear/getMonth/getDate).
LocalDay(t, z) == Norm(t.d, t.ms + z).d

\* The local time of day of t in the zone z.
LocalMs(t, z) == Norm(t.d, t.ms + z).ms

\* The Date that is local day ld, local time of day lms, in the zone z.
FromLocal(ld, lms, z) == Norm(ld, lms - z)

\* t.setHours(0, 0, 0, 0) and t.setHours(23, 59, 59, 999)
StartOfDay(t, z) == FromLocal(LocalDay(t, z), 0, z)
EndOfDay(t, z) == FromLocal(LocalDay(t, z), DAY - 1, z)

\* t.setDate(t.getDate() + n)
AddDays(t, n, z) == FromLocal(LocalDay(t, z) + n, LocalMs(t, z), z)

\* Math.round(dur / oneDay)
RoundDays(dur) == IF 2 * dur.ms >= DAY THEN dur.d + 1 ELSE dur.d

----------------------------------------------------------------------------
(* Values *)

Vals(ts, tg, gl, ga, gla, tsa, ti, v, c) ==
    [totalSale |-> ts, totalSaleGmv |-> tg, gmvSaleLive |-> gl,
     gmvAdsSpend |-> ga, gmvLiveAdsSpend |-> gla, ttamSpendAds |-> tsa,
     ttamImpressions |-> ti, visitor |-> v, customers |-> c]

V_ok      == Vals(2, 1, 1, 1, 1, 1, 1, 2, 1)
V_zero    == Vals(0, 0, 0, 0, 0, 0, 0, 0, 0)
V_badSale == Vals(1, 2, 1, 1, 1, 1, 1, 2, 1)    \* totalSale < totalSaleGmv
V_badLive == Vals(2, 1, 2, 1, 1, 1, 1, 2, 1)    \* totalSaleGmv < gmvSaleLive
V_badAds  == Vals(2, 1, 1, 0, 1, 1, 1, 2, 1)    \* gmvAdsSpend < gmvLiveAdsSpend
V_cust    == Vals(2, 1, 1, 1, 1, 1, 1, 1, 2)    \* customers > visitor
V_neg     == Vals(1, 1, 1, 1, 1, 1, -1, 1, 1)   \* negative ttamImpressions

ValueSet == {V_ok, V_zero, V_badSale, V_badLive, V_badAds, V_cust, V_neg}

\* A date as a client sends it: a parseable date string, or one that is not.
DateStr(d) == [k |-> "date", d |-> d]
BadDateStr == [k |-> "bad", d |-> 0]
BlankCell  == [k |-> "blank", d |-> 0]

\* Request bodies of POST /api/records: a valid one for every day, one for
\* every rule of recordSchema that a body can break, one with a date string
\* that is no date.
Body(ds, v) == [date |-> ds, v |-> v]

Bodies ==
    {Body(DateStr(d), V_ok) : d \in Days}
    \cup {Body(DateStr(0), V_zero), Body(DateStr(1), V_cust), Body(BadDateStr, V_ok)}
    \cup {Body(DateStr(0), v) : v \in {V_badSale, V_badLive, V_badAds, V_neg}}

\* Request bodies of PUT /api/records/:id (the handler does not read date).
PutBodies == {Body(DateStr(0), v) : v \in {V_ok, V_badSale, V_neg}}

----------------------------------------------------------------------------
(* Table helpers *)

\* A column a create leaves out gets its default value.
ColumnDefault == 0

Row(id, d, v) ==
    [id |-> id, date |-> d,
     totalSale |-> v.totalSale, totalSaleGmv |-> v.totalSaleGmv,
     gmvSaleLive |-> v.gmvSaleLive, gmvAdsSpend |-> v.gmvAdsSpend,
     gmvLiveAdsSpend |-> v.gmvLiveAdsSpend, ttamSpendAds |-> v.ttamSpendAds,
     ttamImpressions |-> v.ttamImpressions, visitor |-> v.visitor,
     customers |-> v.customers]

\* The stored input fields of a row, its id excepted.
Content(r) ==
    [date |-> r.date,
     totalSale |-> r.totalSale, totalSaleGmv |-> r.totalSaleGmv,
     gmvSaleLive |-> r.gmvSaleLive, gmvAdsSpend |-> r.gmvAdsSpend,
     gmvLiveAdsSpend |-> r.gmvLiveAdsSpend, ttamSpendAds |-> r.ttamSpendAds,
     ttamImpressions |-> r.ttamImpressions, visitor |-> r.visitor,
     customers |-> r.customers]

Contents(rs) == {Content(r) : r \in rs}

\* where: { date: { gte: startDate, lt: endDate } } for the month m.
InMonth(rs, m) == {r \in rs : MonthStart[m] <= r.date /\ r.date < MonthStart[m + 1]}

\* A table without the unique index on date: no insert is refused.
DateTaken_NoIndex(rs, d) == FALSE

\* CREATE UNIQUE INDEX "DailyRecord_date_key": an insert of a date that is
\* already stored is refused.
DateTaken(rs, d) == \E r \in rs : r.date = d

\* The arrays a findMany without orderBy may return for a set of rows.
RECURSIVE Orders(_)
Orders(S) ==
    IF S = {} THEN {<<>>}
    ELSE UNION {{<<x>> \o t : t \in Orders(S \ {x})} : x \in S}

Range(s) == {s[i] : i \in 1..Len(s)}

----------------------------------------------------------------------------
(* Validation and formulas *)

\* recordSchema without its first refinement.
recordSchema_NoSaleRefine(v) ==
    /\ v.totalSale >= 0 /\ v.totalSaleGmv >= 0 /\ v.gmvSaleLive >= 0
    /\ v.gmvAdsSpend >= 0 /\ v.gmvLiveAdsSpend >= 0
    /\ v.ttamSpendAds >= 0 /\ v.ttamImpressions >= 0
    /\ v.visitor >= 0 /\ v.customers >= 0
    /\ v.totalSaleGmv >= v.gmvSaleLive
    /\ v.gmvAdsSpend >= v.gmvLiveAdsSpend

\* recordSchema.parse succeeds.
recordSchema(v) ==
    /\ v.totalSale >= 0 /\ v.totalSaleGmv >= 0 /\ v.gmvSaleLive >= 0
    /\ v.gmvAdsSpend >= 0 /\ v.gmvLiveAdsSpend >= 0
    /\ v.ttamSpendAds >= 0 /\ v.ttamImpressions >= 0
    /\ v.visitor >= 0 /\ v.customers >= 0
    /\ v.totalSale >= v.totalSaleGmv
    /\ v.totalSaleGmv >= v.gmvSaleLive
    /\ v.gmvAdsSpend >= v.gmvLiveAdsSpend

\* An exact quotient n / d, d > 0.
Rat(n, d) == [num |-> n, den |-> d]
RatEq(a, b) == a.num * b.den = b.num * a.den

calculateMetrics(record) ==
    LET totalAdsSpend == record.gmvAdsSpend + record.ttamSpendAds
    IN  [record |-> record,
         gmvSaleProduct |-> record.totalSaleGmv - record.gmvSaleLive,
         directShopSale |-> record.totalSale - record.totalSaleGmv,
         gmvProductAdsSpend |-> record.gmvAdsSpend - record.gmvLiveAdsSpend,
         totalAdsSpend |-> totalAdsSpend,
         cpm |-> IF record.ttamImpressions > 0
                 THEN Rat(record.ttamSpendAds * 1000, record.ttamImpressions)
                 ELSE Rat(0, 1),
         roiTotal |-> IF totalAdsSpend > 0
                      THEN Rat(record.totalSale, totalAdsSpend) ELSE Rat(0, 1),
         roiGmv |-> IF totalAdsSpend > 0
                    THEN Rat(record.totalSaleGmv, totalAdsSpend) ELSE Rat(0, 1)]

----------------------------------------------------------------------------
(* Spreadsheets *)

\* A cell holding a number, and a cell holding text or nothing.
Num(n) == <<n>>
Text == <<>>

\* parseFloat(cell) || 0 and parseInt(cell) || 0 on such a cell.
parseNumber(c) == IF Len(c) = 0 THEN 0 ELSE c[1]

Cells(v) ==
    [totalSale |-> Num(v.totalSale), totalSaleGmv |-> Num(v.totalSaleGmv),
     gmvSaleLive |-> Num(v.gmvSaleLive), gmvAdsSpend |-> Num(v.gmvAdsSpend),
     gmvLiveAdsSpend |-> Num(v.gmvLiveAdsSpend), ttamSpendAds |-> Num(v.ttamSpendAds),
     ttamImpressions |-> Num(v.ttamImpressions), visitor |-> Num(v.visitor),
     customers |-> Num(v.customers)]

\* A sheet row below the header: its date cell and its nine number cells.
SheetRow(dateCell, cells) == [date |-> dateCell, c |-> cells]

R_ok0   == SheetRow(DateStr(0), Cells(V_ok))
R_zero0 == SheetRow(DateStr(0), Cells(V_zero))
R_neg1  == SheetRow(DateStr(1), Cells(V_neg))
R_cust31 == SheetRow(DateStr(31), Cells(V_cust))
R_bad0  == SheetRow(DateStr(0), Cells(V_badSale))

\* The files uploaded to the server in Spec: the data rows of the first
\* sheet, header removed.
Files ==
    { <<>>, <<R_ok0>>, <<R_neg1>>, <<R_zero0, R_neg1>>, <<R_ok0, R_zero0>>,
      <<R_bad0, R_ok0>>, <<R_cust31>>, <<R_neg1, R_cust31>> }

\* rawData.slice(1).filter(row => row.length > 0 && row[0])
dataRows(file) == SelectSeq(file, LAMBDA row : row.date.k # "blank")

\* The numbers read from a row.
parseRow(row) ==
    [totalSale |-> parseNumber(row.c.totalSale),
     totalSaleGmv |-> parseNumber(row.c.totalSaleGmv),
     gmvSaleLive |-> parseNumber(row.c.gmvSaleLive),
     gmvAdsSpend |-> parseNumber(row.c.gmvAdsSpend),
     gmvLiveAdsSpend |-> parseNumber(row.c.gmvLiveAdsSpend),
     ttamSpendAds |-> parseNumber(row.c.ttamSpendAds),
     ttamImpressions |-> parseNumber(row.c.ttamImpressions),
     visitor |-> parseNumber(row.c.visitor),
     customers |-> parseNumber(row.c.customers)]

\* parseExcelDate(row[0]) returns a date (not null).
parseExcelDate(cell) == cell.k = "date"

\* The reason for which preview rejects a data row, "" when it accepts it.
previewReason(row, month) ==
    LET v == parseRow(row)
    IN  IF ~parseExcelDate(row.date) THEN "Invalid date format. Use DD/MM/YYYY"
        ELSE IF MonthOf(row.date.d) # month THEN "Date does not match selected month"
        ELSE IF v.totalSale < v.totalSaleGmv THEN "Total Sale must be >= Total Sale GMV"
        ELSE IF v.totalSaleGmv < v.gmvSaleLive THEN "Total Sale GMV must be >= GMV Sale Live"
        ELSE IF v.gmvAdsSpend < v.gmvLiveAdsSpend THEN "GMV Ads Spend must be >= GMV Live Ads Spend"
        ELSE IF v.customers > v.visitor THEN "Customers cannot be > Visitor"
        ELSE ""

\* validRows of preview: the accepted rows, as [date, v], in file order.
RECURSIVE previewValidRows(_, _)
previewValidRows(rows, month) ==
    IF rows = <<>> THEN <<>>
    ELSE LET rest == previewValidRows(Tail(rows), month)
             row == Head(rows)
         IN  IF previewReason(row, month) = ""
             THEN <<[date |-> row.date.d, v |-> parseRow(row)]>> \o rest
             ELSE rest

\* invalidRows of the first pass: rowNum = index + 2 within dataRows.
RECURSIVE previewInvalidRows(_, _, _)
previewInvalidRows(rows, month, index) ==
    IF rows = <<>> THEN <<>>
    ELSE LET rest == previewInvalidRows(Tail(rows), month, index + 1)
             reason == previewReason(Head(rows), month)
         IN  IF reason # ""
             THEN <<[row |-> index + 2, reason |-> reason]>> \o rest
             ELSE rest

\* The duplicate-date pass over validRows: row = index + 2 within validRows.
RECURSIVE previewDuplicates(_, _, _)
previewDuplicates(valid, index, dateSet) ==
    IF index >= Len(valid) THEN <<>>
    ELSE LET d == valid[index + 1].date
         IN  IF d \in dateSet
             THEN <<[row |-> index + 2, reason |-> "Duplicate date in file"]>>
                  \o previewDuplicates(valid, index + 1, dateSet)
             ELSE previewDuplicates(valid, index + 1, dateSet \cup {d})

\* The preview object of the response of POST /api/import/preview.
preview(rs, file, month) ==
    LET rows == dataRows(file)
        valid == previewValidRows(rows, month)
        invalid == previewInvalidRows(rows, month, 0) \o previewDuplicates(valid, 0, {})
    IN  [selectedMonth |-> month,
         totalRowsInFile |-> Len(rows),
         validRows |-> Len(valid),
         invalidRows |-> Len(invalid),
         existingRecordsToDelete |-> Cardinality(InMonth(rs, month)),
         errors |-> invalid]

\* Confirm pushes the data row to its validRows.
confirmAccepts(row, month) ==
    LET v == parseRow(row)
    IN  IF ~parseExcelDate(row.date) THEN FALSE
        ELSE IF MonthOf(row.date.d) # month THEN FALSE
        ELSE /\ v.totalSale >= v.totalSaleGmv
             /\ v.totalSaleGmv >= v.gmvSaleLive
             /\ v.gmvAdsSpend >= v.gmvLiveAdsSpend

\* validRows of confirm: the accepted rows, as [date, v], in file order.
RECURSIVE confirmValidRows(_, _)
confirmValidRows(rows, month) ==
    IF rows = <<>> THEN <<>>
    ELSE LET rest == confirmValidRows(Tail(rows), month)
             row == Head(rows)
         IN  IF confirmAccepts(row, month)
             THEN <<[date |-> row.date.d, v |-> parseRow(row)]>> \o rest
             ELSE rest

\* STEP 3 of confirm: create the rows one by one; a create of a date that is
\* stored already throws and ends the loop.
RECURSIVE insertRows(_, _, _, _)
insertRows(rs, nid, rows, ids) ==
    IF rows = <<>> THEN [records |-> rs, nextId |-> nid, importedIds |-> ids, ok |-> TRUE]
    ELSE LET row == Head(rows)
         IN  IF DateTaken(rs, row.date)
             THEN [records |-> rs, nextId |-> nid, importedIds |-> ids, ok |-> FALSE]
             ELSE insertRows(rs \cup {Row(nid, row.date, row.v)}, nid + 1,
                             Tail(rows), Append(ids, nid))

\* The handler of POST /api/import/confirm on the table rs; existingRecords
\* is the array findMany returned for the month.
importConfirm(rs, nid, backup, file, month, existingRecords) ==
    LET rows == dataRows(file)
        validRows == confirmValidRows(rows, month)
        afterDelete == rs \ InMonth(rs, month)
        ins == insertRows(afterDelete, nid, validRows, <<>>)
    IN  IF ins.ok
        THEN [status |-> 200, code |-> "import",
              records |-> ins.records, nextId |-> ins.nextId,
              lastImportBackup |-> <<[month |-> month, records |-> existingRecords,
                                      importedIds |-> ins.importedIds]>>,
              recordsDeleted |-> Len(existingRecords),
              recordsImported |-> Len(ins.importedIds),
              skipped |-> Len(rows) - Len(validRows)]
        ELSE [status |-> 500, code |-> "error",
              records |-> ins.records, nextId |-> ins.nextId,
              lastImportBackup |-> backup,
              recordsDeleted |-> 0, recordsImported |-> 0, skipped |-> 0]

----------------------------------------------------------------------------
(* Init *)

\* No report is stored, no import is running, no page is open.
InitMore ==
    /\ reports = <<>>
    /\ job = [pc |-> "idle"]
    /\ analysis = [mounted |-> FALSE]
    /\ diag = [mounted |-> FALSE]
    /\ sheet = [status |-> 0]
    /\ worker = [status |-> 0]

Init ==
    /\ records = {}
    /\ nextId = 1
    /\ lastImportBackup = <<>>
    /\ req = [op |-> "none"]
    /\ resp = [status |-> 0, code |-> ""]
    /\ tz = 0
    /\ funnel = [status |-> 0]
    /\ dash = [mounted |-> FALSE]
    /\ InitMore

----------------------------------------------------------------------------
(* POST /api/records *)

\* postRecords whose catch block does not recognise the validation error.
postRecords_ServerError(rs, nid, body) ==
    IF ~recordSchema(body.v) \/ body.date.k # "date"
    THEN [status |-> 500, code |-> "server_error", records |-> rs, nextId |-> nid]
    ELSE LET date == body.date.d
             existing == {r \in rs : r.date = date}
         IN  IF existing # {}
             THEN LET existingRecord == CHOOSE r \in existing : TRUE
                  IN  [status |-> 200, code |-> "update", nextId |-> nid,
                       records |-> (rs \ {existingRecord})
                                   \cup {Row(existingRecord.id, existingRecord.date, body.v)}]
             ELSE [status |-> 200, code |-> "create", nextId |-> nid + 1,
                   records |-> rs \cup {Row(nid, date, body.v)}]

postRecords(rs, nid, body) ==
    IF ~recordSchema(body.v)
    THEN [status |-> 400, code |-> "validation_error", records |-> rs, nextId |-> nid]
    ELSE IF body.date.k # "date"
    THEN \* new Date(...) is an Invalid Date and the query throws
         [status |-> 500, code |-> "server_error", records |-> rs, nextId |-> nid]
    ELSE LET date == body.date.d
             existing == {r \in rs : r.date = date}
         IN  IF existing # {}
             THEN LET existingRecord == CHOOSE r \in existing : TRUE
                  IN  [status |-> 200, code |-> "update", nextId |-> nid,
                       records |-> (rs \ {existingRecord})
                                   \cup {Row(existingRecord.id, existingRecord.date, body.v)}]
             ELSE [status |-> 200, code |-> "create", nextId |-> nid + 1,
                   records |-> rs \cup {Row(nid, date, body.v)}]

PostRecordsWith(body) ==
    LET res == postRecords(records, nextId, body)
    IN  /\ res.nextId <= MaxId + 1
        /\ records' = res.records
        /\ nextId' = res.nextId
        /\ req' = [op |-> "post"]
        /\ resp' = [status |-> res.status, code |-> res.code]
        /\ UNCHANGED <<lastImportBackup, tz, funnel, dash, moreVars>>

PostRecords == \E body \in Bodies : PostRecordsWith(body)

----------------------------------------------------------------------------
(* PUT /api/records/:id *)

\* id is parseInt(req.params.id); isNaN(id) is handled in PutRecords.
putRecords(rs, id, body) ==
    IF ~recordSchema(body.v)
    THEN [status |-> 400, code |-> "validation_error", records |-> rs]
    ELSE IF ~\E r \in rs : r.id = id
    THEN [status |-> 404, code |-> "not_found", records |-> rs]
    ELSE LET old == CHOOSE r \in rs : r.id = id
         IN  [status |-> 200, code |-> "update",
              records |-> (rs \ {old}) \cup {Row(old.id, old.date, body.v)}]

PutRecordsWith(id, body) ==
    LET res == putRecords(records, id, body)
    IN  /\ records' = res.records
        /\ req' = [op |-> "put"]
        /\ resp' = [status |-> res.status, code |-> res.code]
        /\ UNCHANGED <<nextId, lastImportBackup, tz, funnel, dash, moreVars>>

PutRecords ==
    \/ \* isNaN(id): 'Invalid record ID'
       /\ req' = [op |-> "put"]
       /\ resp' = [status |-> 400, code |-> "validation_error"]
       /\ UNCHANGED <<records, nextId, lastImportBackup, tz, funnel, dash, moreVars>>
    \/ \E id \in 1..MaxId, body \in PutBodies : PutRecordsWith(id, body)

----------------------------------------------------------------------------
(* POST /api/import/preview *)

\* A preview that runs the deleteMany of confirm.
ImportPreview_Deletes ==
    \E file \in Files, month \in Months :
        /\ records' = records \ InMonth(records, month)
        /\ req' = [op |-> "preview"]
        /\ resp' = [status |-> 200, code |-> "success"]
        /\ UNCHANGED <<nextId, lastImportBackup, tz, funnel, dash, moreVars>>

ImportPreview ==
    \/ \* month or file missing
       /\ req' = [op |-> "preview"]
       /\ resp' = [status |-> 400, code |-> "error"]
       /\ UNCHANGED <<records, nextId, lastImportBackup, tz, funnel, dash, moreVars>>
    \/ \E file \in Files, month \in Months :
        /\ req' = [op |-> "preview"]
        /\ resp' = [status |-> 200, code |-> "success"]
        /\ UNCHANGED <<records, nextId, lastImportBackup, tz, funnel, dash, moreVars>>

----------------------------------------------------------------------------
(* POST /api/import/confirm *)

ImportConfirmWith(file, month, existingRecords) ==
    LET res == importConfirm(records, nextId, lastImportBackup, file, month,
                             existingRecords)
    IN  /\ res.nextId <= MaxId + 1
        /\ records' = res.records
        /\ nextId' = res.nextId
        /\ lastImportBackup' = res.lastImportBackup
        /\ req' = [op |-> "confirm"]
        /\ resp' = [status |-> res.status, code |-> res.code]
        /\ UNCHANGED <<tz, funnel, dash, moreVars>>

ImportConfirm ==
    \/ \* month or file missing
       /\ req' = [op |-> "confirm"]
       /\ resp' = [status |-> 400, code |-> "error"]
       /\ UNCHANGED <<records, nextId, lastImportBackup, tz, funnel, dash, moreVars>>
    \/ \E file \in Files, month \in Months :
       \E existingRecords \in Orders(InMonth(records, month)) :
            ImportConfirmWith(file, month, existingRecords)

----------------------------------------------------------------------------
(* POST /api/import/undo *)

\* STEP 2 of undo: create the backed-up rows one by one, without visitor and
\* customers; a create of a date that is stored already throws.
RECURSIVE restoreRows(_, _, _)
restoreRows(rs, nid, backupRecords) ==
    IF backupRecords = <<>> THEN [records |-> rs, nextId |-> nid, ok |-> TRUE]
    ELSE LET record == Head(backupRecords)
         IN  IF DateTaken(rs, record.date)
             THEN [records |-> rs, nextId |-> nid, ok |-> FALSE]
             ELSE restoreRows(
                    rs \cup {[Row(nid, record.date, record)
                                EXCEPT !.visitor = ColumnDefault,
                                       !.customers = ColumnDefault]},
                    nid + 1, Tail(backupRecords))

\* importUndo that does not clear the backup after a successful undo.
importUndo_KeepsBackup(rs, nid, backup) ==
    IF backup = <<>>
    THEN [status |-> 400, code |-> "error", records |-> rs, nextId |-> nid,
          lastImportBackup |-> backup]
    ELSE LET afterDelete == {r \in rs : r.id \notin Range(backup[1].importedIds)}
             res == restoreRows(afterDelete, nid, backup[1].records)
         IN  [status |-> IF res.ok THEN 200 ELSE 500,
              code |-> IF res.ok THEN "undo" ELSE "error",
              records |-> res.records, nextId |-> res.nextId,
              lastImportBackup |-> backup]

importUndo(rs, nid, backup) ==
    IF backup = <<>>
    THEN [status |-> 400, code |-> "error", records |-> rs, nextId |-> nid,
          lastImportBackup |-> backup]
    ELSE LET afterDelete == {r \in rs : r.id \notin Range(backup[1].importedIds)}
             res == restoreRows(afterDelete, nid, backup[1].records)
         IN  IF res.ok
             THEN [status |-> 200, code |-> "undo", records |-> res.records,
                   nextId |-> res.nextId, lastImportBackup |-> <<>>]
             ELSE [status |-> 500, code |-> "error", records |-> res.records,
                   nextId |-> res.nextId, lastImportBackup |-> backup]

ImportUndo ==
    \/ LET res == importUndo(records, nextId, lastImportBackup)
       IN  /\ res.nextId <= MaxId + 1
           /\ records' = res.records
           /\ nextId' = res.nextId
           /\ lastImportBackup' = res.lastImportBackup
           /\ req' = [op |-> "undo"]
           /\ resp' = [status |-> res.status, code |-> res.code]
           /\ UNCHANGED <<tz, funnel, dash, moreVars>>

----------------------------------------------------------------------------
(* GET /api/import/undo-status *)

undoStatus(backup) ==
    [available |-> backup # <<>>,
     month |-> IF backup # <<>> THEN <<backup[1].month>> ELSE <<>>]

UndoStatus ==
    \/ /\ req' = [op |-> "undo-status"]
       /\ resp' = [status |-> 200,
                   code |-> IF undoStatus(lastImportBackup).available
                            THEN "available" ELSE "unavailable"]
       /\ UNCHANGED <<records, nextId, lastImportBackup, tz, funnel, dash, moreVars>>

----------------------------------------------------------------------------

Next ==
    \/ PostRecords
    \/ PutRecords
    \/ ImportPreview
    \/ ImportConfirm
    \/ ImportUndo
    \/ UndoStatus

Spec == Init /\ [][Next]_vars

----------------------------------------------------------------------------
(* Claims about the import, the undo and the record routes (Spec) *)

\* The records a successful confirm for (file, month) is to store, by content.
FileContents(file, month) ==
    LET valid == confirmValidRows(dataRows(file), month)
    IN  {Content(Row(0, valid[i].date, valid[i].v)) : i \in 1..Len(valid)}

\* C1: import followed by undo is a round trip: when a confirm import
\* succeeds and undo is called next, the stored records (date and the nine
\* input fields, ids excepted) are those stored before the import.
C1_ImportUndoRoundTrip ==
    \A file \in Files, month \in Months :
    \A existingRecords \in Orders(InMonth(records, month)) :
        LET c == importConfirm(records, nextId, lastImportBackup, file, month,
                               existingRecords)
            u == importUndo(c.records, c.nextId, c.lastImportBackup)
        IN  c.status = 200 => Contents(u.records) = Contents(records)

\* C2: confirm import is atomic: after a confirm request for month M,
\* successful or failed, the records of M are exactly those stored before
\* the request or exactly the valid rows of the file.
C2_Step ==
    \A file \in Files, month \in Months :
    \A existingRecords \in Orders(InMonth(records, month)) :
        ImportConfirmWith(file, month, existingRecords) =>
            \/ InMonth(records', month) = InMonth(records, month)
            \/ Contents(InMonth(records', month)) = FileContents(file, month)

C2_ConfirmAtomic == [][C2_Step]_vars

\* C3: one snapshot at most is retained and it is that of the most recent
\* successful import: a successful confirm stores the rows it deleted and the
\* ids it created, nothing else touches the snapshot but a successful undo,
\* which removes the rows of that import only and clears the snapshot, after
\* which undo-status says unavailable and a further undo answers 400 and
\* changes no record.
C3_Step ==
    LET confirmed == req'.op = "confirm" /\ resp'.status = 200
        undone == req'.op = "undo" /\ resp'.status = 200
    IN  /\ Len(lastImportBackup') <= 1
        /\ confirmed =>
             /\ Len(lastImportBackup') = 1
             /\ Range(lastImportBackup'[1].records)
                  = InMonth(records, lastImportBackup'[1].month)
             /\ Range(lastImportBackup'[1].importedIds)
                  = {r.id : r \in records' \ records}
        /\ undone =>
             /\ Len(lastImportBackup) = 1
             /\ lastImportBackup' = <<>>
             /\ ~undoStatus(lastImportBackup').available
             /\ {r \in records : r.id \notin Range(lastImportBackup[1].importedIds)}
                  \subseteq records'
             /\ importUndo(records', nextId', lastImportBackup').status = 400
             /\ importUndo(records', nextId', lastImportBackup').records = records'
        /\ (~confirmed /\ ~undone) => lastImportBackup' = lastImportBackup
        /\ (req'.op = "undo" /\ lastImportBackup = <<>>) =>
             resp'.status = 400 /\ records' = records

C3_SingleSnapshot == [][C3_Step]_vars

\* A second import was undone: the table still holds a row that only an
\* earlier import can have stored.
C3_Witness ==
    /\ req.op = "undo" /\ resp.status = 200
    /\ lastImportBackup = <<>>
    /\ \E r \in records : r.ttamImpressions < 0

\* C4: every stored record has totalSale >= totalSaleGmv >= gmvSaleLive and
\* gmvAdsSpend >= gmvLiveAdsSpend.
C4_StoredOrdering ==
    \A r \in records :
        /\ r.totalSale >= r.totalSaleGmv
        /\ r.totalSaleGmv >= r.gmvSaleLive
        /\ r.gmvAdsSpend >= r.gmvLiveAdsSpend

\* An undo has restored a row: the newest row of the table is its work.
C4_Witness ==
    /\ req.op = "undo" /\ resp.status = 200
    /\ \E r \in records : r.id = nextId - 1

\* A body breaks a rule of the record validation.
ViolatesRule(v) ==
    \/ \E f \in DOMAIN v : v[f] < 0
    \/ v.totalSaleGmv > v.totalSale
    \/ v.gmvSaleLive > v.totalSaleGmv
    \/ v.gmvLiveAdsSpend > v.gmvAdsSpend

\* C5: POST /api/records with a body that breaks a validation rule answers
\* 400 validation_error and creates or changes no record.
C5_Step ==
    \A body \in Bodies :
        (ViolatesRule(body.v) /\ PostRecordsWith(body)) =>
            /\ resp'.status = 400
            /\ resp'.code = "validation_error"
            /\ records' = records

C5_InvalidPostRejected == [][C5_Step]_vars

C5_Witness ==
    /\ req.op = "post" /\ resp.status = 400 /\ resp.code = "validation_error"
    /\ records # {}

\* C6: the derived fields of every record the API returns are the stated
\* formulas: cpm = ttamSpendAds / ttamImpressions * 1000, 0 when
\* ttamImpressions is 0; roiTotal and roiGmv the quotients by totalAdsSpend,
\* 0 when totalAdsSpend is 0; the differences and the raw fields as stored.
C6_DerivedFields ==
    \A r \in records :
        LET m == calculateMetrics(r)
            totalAdsSpend == r.gmvAdsSpend + r.ttamSpendAds
        IN  /\ m.record = r
            /\ m.totalAdsSpend = totalAdsSpend
            /\ m.gmvSaleProduct = r.totalSaleGmv - r.gmvSaleLive
            /\ m.directShopSale = r.totalSale - r.totalSaleGmv
            /\ m.gmvProductAdsSpend = r.gmvAdsSpend - r.gmvLiveAdsSpend
            /\ RatEq(m.cpm, IF r.ttamImpressions = 0 THEN Rat(0, 1)
                            ELSE Rat(r.ttamSpendAds * 1000, r.ttamImpressions))
            /\ RatEq(m.roiTotal, IF totalAdsSpend = 0 THEN Rat(0, 1)
                                 ELSE Rat(r.totalSale, totalAdsSpend))
            /\ RatEq(m.roiGmv, IF totalAdsSpend = 0 THEN Rat(0, 1)
                               ELSE Rat(r.totalSaleGmv, totalAdsSpend))

\* C9: for the same file and month confirm inserts the rows preview counted
\* as valid: recordsImported = validRows, and a row preview reports invalid
\* is not inserted.
C9_Step ==
    \A file \in Files, month \in Months :
    \A existingRecords \in Orders(InMonth(records, month)) :
        LET p == preview(records, file, month)
            rows == dataRows(file)
        IN  (ImportConfirmWith(file, month, existingRecords) /\ resp'.status = 200) =>
              /\ Len(lastImportBackup'[1].importedIds) = p.validRows
              /\ \A i \in 1..Len(rows) :
                   previewReason(rows[i], month) # "" =>
                       Content(Row(0, rows[i].date.d, parseRow(rows[i])))
                           \notin Contents(records')

C9_ConfirmMatchesPreview == [][C9_Step]_vars

\* C10: import preview is a dry run: the stored records and the retained
\* snapshot are the same after a preview request as before it.
C10_Step ==
    req'.op = "preview" => /\ records' = records
                           /\ lastImportBackup' = lastImportBackup

C10_PreviewDryRun == [][C10_Step]_vars

C10_Witness ==
    /\ req.op = "preview" /\ resp.status = 200
    /\ records # {}
    /\ lastImportBackup # <<>>

\* C11: at most one record is stored per calendar date, whatever the sequence
\* of POST, PUT, confirm import and undo; a valid POST for a date that has a
\* record answers mode 'update', changes that record and creates none.
C11_Step ==
    /\ \A r1 \in records' : \A r2 \in records' : r1.date = r2.date => r1 = r2
    /\ \A body \in Bodies :
         (/\ PostRecordsWith(body)
          /\ recordSchema(body.v)
          /\ body.date.k = "date"
          /\ \E r \in records : r.date = body.date.d) =>
            /\ resp'.status = 200 /\ resp'.code = "update"
            /\ nextId' = nextId
            /\ {r.id : r \in records'} = {r.id : r \in records}
            /\ \E r \in records' :
                 /\ Content(r) = Content(Row(0, body.date.d, body.v))
                 /\ \E o \in records : o.id = r.id /\ o.date = r.date
            /\ \A r \in records : r.date # body.date.d => r \in records'

C15_NonNegative ==
    \A r \in records :
        /\ r.totalSale >= 0 /\ r.totalSaleGmv >= 0 /\ r.gmvSaleLive >= 0
        /\ r.gmvAdsSpend >= 0 /\ r.gmvLiveAdsSpend >= 0
        /\ r.ttamSpendAds >= 0 /\ r.ttamImpressions >= 0
        /\ r.visitor >= 0 /\ r.customers >= 0

\* C16: every stored record has customers <= visitor, whether POST, PUT or
\* confirm import wrote it.
C16_CustomersWithinVisitors == \A r \in records : r.customers <= r.visitor

----------------------------------------------------------------------------
(* GET /api/funnel-metrics (Express) *)

\* The startDate and endDate of the queries: 2026-01-01 and the days after.
QueryDays == 0..MaxQueryDay

\* The days looked at when a period is measured.
DayWindow == (0 - MaxQueryDay - 3)..(MaxQueryDay + 2)

\* previousPeriod without the + 1 in the setDate of pStart.
previousPeriod_NoPlusOne(start, end, z) ==
    LET s == StartOfDay(start, z)
        e == StartOfDay(end, z)
        rangeDays == RoundDays(TDiff(e, s)) + 1
        pEnd == EndOfDay(AddDays(s, 0 - 1, z), z)
        pStart == StartOfDay(AddDays(pEnd, 0 - rangeDays, z), z)
    IN  [pStart |-> pStart, pEnd |-> pEnd]

\* The previous period of a query: pEnd is the end of the day before the
\* start, pStart the start of the day rangeDays - 1 days before pEnd.
previousPeriod(start, end, z) ==
    LET s == StartOfDay(start, z)
        e == StartOfDay(end, z)
        rangeDays == RoundDays(TDiff(e, s)) + 1
        pEnd == EndOfDay(AddDays(s, 0 - 1, z), z)
        pStart == StartOfDay(AddDays(pEnd, 0 - rangeDays + 1, z), z)
    IN  [pStart |-> pStart, pEnd |-> pEnd]

funnelMetrics(startDate, endDate, z) ==
    LET start == DateOf(startDate)
        end == EndOfDay(DateOf(endDate), z)
        prev == previousPeriod(start, end, z)
    IN  [status |-> 200, startDate |-> startDate, endDate |-> endDate,
         start |-> start, end |-> end,
         pStart |-> prev.pStart, pEnd |-> prev.pEnd]

\* where: { date: { gte, lte } }: the stored dates the aggregate sums.
DaysIn(gte, lte) == {d \in DayWindow : TLe(gte, DateOf(d)) /\ TLe(DateOf(d), lte)}

FunnelMetrics ==
    /\ \/ \* startDate or endDate missing
          funnel' = [status |-> 400]
       \/ \E startDate \in QueryDays, endDate \in QueryDays :
            funnel' = funnelMetrics(startDate, endDate, tz)
    /\ UNCHANGED <<serverVars, tz, dash, moreVars>>

InitFunnel ==
    /\ records = {}
    /\ nextId = 1
    /\ lastImportBackup = <<>>
    /\ req = [op |-> "none"]
    /\ resp = [status |-> 0, code |-> ""]
    /\ tz \in TZOffsets
    /\ funnel = [status |-> 0]
    /\ dash = [mounted |-> FALSE]
    /\ InitMore

NextFunnel == FunnelMetrics

SpecFunnel == InitFunnel /\ [][NextFunnel]_vars

\* C7: with startDate <= endDate the previous period covers as many days as
\* the current period, ends on the day before the start and shares no day
\* with the current period.
C7_PreviousPeriod ==
    (funnel.status = 200 /\ funnel.startDate <= funnel.endDate) =>
        LET cur == DaysIn(funnel.start, funnel.end)
            prev == DaysIn(funnel.pStart, funnel.pEnd)
        IN  /\ cur = funnel.startDate..funnel.endDate
            /\ Cardinality(prev) = Cardinality(cur)
            /\ funnel.startDate - 1 \in prev
            /\ \A d \in prev : d < funnel.startDate
            /\ prev \cap cur = {}
            /\ LocalDay(funnel.pEnd, tz) = LocalDay(funnel.start, tz) - 1

C7_Witness ==
    /\ funnel.status = 200
    /\ funnel.endDate - funnel.startDate >= 3
    /\ tz < 0

----------------------------------------------------------------------------
(* Dashboard and Auto Analysis: dateRange and fetchData *)

\* new Date() when the page runs: 2026-02-10 12:00 UTC, or 2026-03-01 01:00 UTC.
Clocks == {[d |-> 40, ms |-> 12 * 3600000], [d |-> 59, ms |-> 3600000]}

\* The values typed into the two date inputs.  The other input keeps its
\* string, formatDate of the Date the page holds, which west of Greenwich is
\* the day before the one typed: the handlers stop at day -MaxDaysBack.
InputDays == {34, 35, 38}

Presets == {"today", "yesterday", "last7", "last30", "thisMonth", "lastMonth",
            "last3Months"}

\* new Date(year, month, 1) for the month of the local day ld, moved by k months.
FirstOfMonth(ld, k, z) == FromLocal(MonthStart[MonthOf(ld) + k], 0, z)

\* useState initialiser of dateRange: the last 7 days.
defaultRange(now, z) ==
    LET end == EndOfDay(now, z)
    IN  <<StartOfDay(AddDays(end, 0 - 6, z), z), end>>

\* handlePresetChange: the range a preset selects.
presetRange(value, clock, z) ==
    LET now == StartOfDay(clock, z)
        endOfDay == EndOfDay(clock, z)
    IN  CASE value = "today" -> <<now, endOfDay>>
          [] value = "yesterday" ->
                <<AddDays(now, 0 - 1, z), EndOfDay(AddDays(now, 0 - 1, z), z)>>
          [] value = "last7" -> <<AddDays(now, 0 - 6, z), endOfDay>>
          [] value = "last30" -> <<AddDays(now, 0 - 29, z), endOfDay>>
          [] value = "thisMonth" -> <<FirstOfMonth(LocalDay(now, z), 0, z), endOfDay>>
          [] value = "lastMonth" ->
                <<FirstOfMonth(LocalDay(now, z), 0 - 1, z),
                  EndOfDay(AddDays(FirstOfMonth(LocalDay(now, z), 0, z), 0 - 1, z), z)>>
          [] value = "last3Months" -> <<AddDays(now, 0 - 89, z), endOfDay>>

\* toLocalDateString / toStr: the local calendar day of a Date.
toLocalDateString(date, z) == LocalDay(date, z)

\* formatDate of the picker: the local calendar day of a Date.
formatDate(date, z) == LocalDay(Norm(date.d, date.ms + z), 0)

\* fetchData: the two /api/summary requests for a dateRange.
fetchData(dateRange, z) ==
    LET start == dateRange[1]
        end == dateRange[2]
        duration == TDiff(end, start)
        compEnd == TMinus(start, [d |-> 1, ms |-> 0])
        compStart == TMinus(compEnd, duration)
    IN  [start |-> toLocalDateString(start, z),
         end |-> toLocalDateString(end, z),
         compStart |-> toLocalDateString(compStart, z),
         compEnd |-> toLocalDateString(compEnd, z)]

\* setDateRange followed by the fetchData its effect runs.
Page(clock, dateRange, z) ==
    [mounted |-> TRUE, clock |-> clock, dateRange |-> dateRange,
     summary |-> fetchData(dateRange, z)]

HandlePresetChange ==
    /\ \E value \in Presets :
         dash' = Page(dash.clock, presetRange(value, dash.clock, tz), tz)
    /\ UNCHANGED <<serverVars, tz, funnel, moreVars>>

HandleStartChange ==
    /\ formatDate(dash.dateRange[2], tz) >= 0 - MaxDaysBack
    /\ \E val \in InputDays :
         dash' = Page(dash.clock,
                      <<DateOf(val), DateOf(formatDate(dash.dateRange[2], tz))>>, tz)
    /\ UNCHANGED <<serverVars, tz, funnel, moreVars>>

HandleEndChange ==
    /\ formatDate(dash.dateRange[1], tz) >= 0 - MaxDaysBack
    /\ \E val \in InputDays :
         dash' = Page(dash.clock,
                      <<DateOf(formatDate(dash.dateRange[1], tz)), DateOf(val)>>, tz)
    /\ UNCHANGED <<serverVars, tz, funnel, moreVars>>

InitDash ==
    /\ records = {}
    /\ nextId = 1
    /\ lastImportBackup = <<>>
    /\ req = [op |-> "none"]
    /\ resp = [status |-> 0, code |-> ""]
    /\ tz \in TZOffsets
    /\ funnel = [status |-> 0]
    /\ \E clock \in Clocks : dash = Page(clock, defaultRange(clock, tz), tz)
    /\ InitMore

NextDash ==
    \/ HandlePresetChange
    \/ HandleStartChange
    \/ HandleEndChange

SpecDash == InitDash /\ [][NextDash]_vars

\* C8: the comparison period requested from /api/summary has as many days
\* as the selected period and ends on the day before the selected start,
\* for every selectable range with start <= end.
C8_ComparisonPeriod ==
    (dash.mounted /\ TLe(dash.dateRange[1], dash.dateRange[2])) =>
        /\ dash.summary.compEnd = dash.summary.start - 1
        /\ dash.summary.compEnd - dash.summary.compStart
             = dash.summary.end - dash.summary.start

----------------------------------------------------------------------------
(* Authentication and the report routes (SpecAuth) *)

\* The Authorization header of a request: none, a token jwt.verify refuses,
\* and the tokens login signs for the two roles of the seed.
NoToken     == [k |-> "none", role |-> ""]
BadToken    == [k |-> "invalid", role |-> ""]
ClientToken == [k |-> "valid", role |-> "CLIENT"]
AdminToken  == [k |-> "valid", role |-> "ADMIN"]

Tokens == {NoToken, BadToken, ClientToken, AdminToken}

\* authenticateToken: the status it sends, 0 when it calls next().
authenticateToken(token) ==
    IF token.k = "none" THEN 401
    ELSE IF token.k # "valid" THEN 403
    ELSE 0

\* A requireAdmin that lets every verified user pass.
requireAdmin_AnyUser(token) == 0

\* requireAdmin on req.user, the payload of the token: the status it sends,
\* 0 when it calls next().
requireAdmin(token) == IF token.role # "ADMIN" THEN 403 ELSE 0

\* The chain authenticateToken, requireAdmin in front of a handler.
adminOnly(token) ==
    IF authenticateToken(token) # 0 THEN authenticateToken(token)
    ELSE requireAdmin(token)

\* res.sendStatus of a middleware: the handler does not run.
Rejected(op, status) ==
    /\ req' = [op |-> op]
    /\ resp' = [status |-> status, code |-> "rejected"]
    /\ UNCHANGED <<records, nextId, lastImportBackup, tz, funnel, dash, moreVars>>

\* An ISO date-time string of a request body, and a string that is no date.
Iso(t) == [k |-> "iso", t |-> t]
BadIso == [k |-> "bad", t |-> DateOf(0)]

\* prisma.analysisReport.create: version || 1.
ReportRow(id, body) ==
    [id |-> id, startDate |-> body.startDate.t, endDate |-> body.endDate.t,
     version |-> IF body.version = 0 THEN 1 ELSE body.version]

\* The AnalysisReport table takes every row a create hands it and numbers
\* the rows in creation order.
analysisReportCreate(rp, data) == Append(rp, [data EXCEPT !.id = Len(rp) + 1])

\* The handler of POST /api/reports.
postReports(rp, body) ==
    IF body.startDate.k # "iso" \/ body.endDate.k # "iso"
    THEN [status |-> 500, code |-> "error", reports |-> rp]
    ELSE [status |-> 200, code |-> "success",
          reports |-> analysisReportCreate(rp, ReportRow(0, body))]

PostReportsWith(body) ==
    LET res == postReports(reports, body)
    IN  /\ Len(res.reports) <= MaxReports
        /\ reports' = res.reports
        /\ req' = [op |-> "reports"]
        /\ resp' = [status |-> res.status, code |-> res.code]
        /\ UNCHANGED <<records, nextId, lastImportBackup, tz, funnel, dash,
                       job, analysis, diag, sheet, worker>>

\* The request bodies of SpecAuth.
AuthBodies == {Body(DateStr(0), V_ok), Body(DateStr(0), V_zero)}
AuthFiles == {<<R_ok0>>, <<R_neg1>>}
ReportBodies ==
    {[startDate |-> Iso(DateOf(0)), endDate |-> Iso(DateOf(1)), version |-> 0]}
    \cup {[startDate |-> BadIso, endDate |-> Iso(DateOf(1)), version |-> 1]}

AuthPostRecords(token) ==
    IF adminOnly(token) # 0 THEN Rejected("post", adminOnly(token))
    ELSE \E body \in AuthBodies : PostRecordsWith(body)

AuthPutRecords(token) ==
    IF adminOnly(token) # 0 THEN Rejected("put", adminOnly(token))
    ELSE \E body \in AuthBodies : PutRecordsWith(1, body)

AuthImportPreview(token) ==
    IF adminOnly(token) # 0 THEN Rejected("preview", adminOnly(token))
    ELSE ImportPreview

AuthImportConfirm(token) ==
    IF adminOnly(token) # 0 THEN Rejected("confirm", adminOnly(token))
    ELSE \E file \in AuthFiles :
         \E existingRecords \in Orders(InMonth(records, 1)) :
            ImportConfirmWith(file, 1, existingRecords)

AuthImportUndo(token) ==
    IF adminOnly(token) # 0 THEN Rejected("undo", adminOnly(token))
    ELSE ImportUndo

AuthPostReports(token) ==
    IF adminOnly(token) # 0 THEN Rejected("reports", adminOnly(token))
    ELSE \E body \in ReportBodies : PostReportsWith(body)

\* A request to one of the routes that write, sent with the token.
WriteRequest(token) ==
    \/ AuthPostRecords(token)
    \/ AuthPutRecords(token)
    \/ AuthImportPreview(token)
    \/ AuthImportConfirm(token)
    \/ AuthImportUndo(token)
    \/ AuthPostReports(token)

NextAuth == \E token \in Tokens : WriteRequest(token)

SpecAuth == Init /\ [][NextAuth]_vars

\* C12: a request to POST /api/records, PUT /api/records/:id, import
\* preview, import confirm, import undo or POST /api/reports that carries no
\* valid token of role ADMIN is answered 401 or 403 and leaves the records,
\* the snapshot and the reports as they are.
C12_Step ==
    \A token \in Tokens \ {AdminToken} :
        WriteRequest(token) =>
            /\ resp'.status \in {401, 403}
            /\ records' = records
            /\ nextId' = nextId
            /\ lastImportBackup' = lastImportBackup
            /\ reports' = reports

C12_AdminOnly == [][C12_Step]_vars

\* A request was refused while records, a snapshot and a report are stored.
C12_Witness ==
    /\ resp.status = 403 /\ req.op = "undo"
    /\ records # {}
    /\ lastImportBackup # <<>>
    /\ reports # <<>>

----------------------------------------------------------------------------
(* The sale diagnosis of the Auto Analysis page (SpecDiag) *)

\* a < b for two quotients with positive denominators.
RatLt(a, b) == a.num * b.den < b.num * a.den

\* getChange(curr, prev) on quotients: ((curr - prev) / prev) * 100, and 100
\* or 0 when prev is 0.  The result keeps a positive denominator.
getChange(curr, prev) ==
    IF prev.num = 0 THEN (IF curr.num > 0 THEN Rat(100, 1) ELSE Rat(0, 1))
    ELSE LET n == 100 * (curr.num * prev.den - prev.num * curr.den)
             d == curr.den * prev.num
         IN  IF d > 0 THEN Rat(n, d) ELSE Rat(0 - n, 0 - d)

\* A response of /api/summary as the diagnosis reads it: totalSale and
\* totalAdsSpend, roiTotal, and the sums of visitor and customers that
\* calcFunnel takes over data.records.
Summary(sale, spend, vis, cust) ==
    [totalSale |-> sale, totalAdsSpend |-> spend,
     roiTotal |-> IF spend > 0 THEN Rat(sale, spend) ELSE Rat(0, 1),
     visitor |-> vis, customers |-> cust]

Summaries ==
    {Summary(sale, spend, vis, cust) :
        sale \in {0, 80, 90, 100}, spend \in {0, 10, 20},
        vis \in {0, 8, 9, 10}, cust \in {0, 4, 5}}

calcFunnel(data) ==
    LET vis == data.visitor
        cust == data.customers
        sales == data.totalSale
        spend == data.totalAdsSpend
    IN  [visitor |-> vis,
         customers |-> cust,
         cr |-> IF vis > 0 THEN Rat(cust * 100, vis) ELSE Rat(0, 1),
         aov |-> IF cust > 0 THEN Rat(sales, cust) ELSE Rat(0, 1),
         cac |-> IF cust > 0 THEN Rat(spend, cust) ELSE Rat(0, 1),
         rpv |-> IF vis > 0 THEN Rat(sales, vis) ELSE Rat(0, 1)]

\* The changes the diagnosis engine compares.
changes(c, p) ==
    [saleChange |-> getChange(Rat(c.totalSale, 1), Rat(p.totalSale, 1)),
     roiChange |-> getChange(c.roiTotal, p.roiTotal),
     crChange |-> getChange(calcFunnel(c).cr, calcFunnel(p).cr),
     aovChange |-> getChange(calcFunnel(c).aov, calcFunnel(p).aov),
     visChange |-> getChange(Rat(calcFunnel(c).visitor, 1), Rat(calcFunnel(p).visitor, 1))]

\* The texts of the sale section, named by their subject.
Texts == {"traffic", "conversion", "orderValue", "adsEfficiency", "fullAudit",
          "scaling", "salesUpRoiDown"}

\* A diagnosis that looks at the conversion rate before the traffic.
saleDiagnosis_ConversionFirst(c, p) ==
    LET ch == changes(c, p)
        text == IF RatLt(ch.saleChange, Rat(0, 1))
                THEN IF RatLt(ch.crChange, Rat(0 - 10, 1)) THEN "conversion"
                     ELSE IF RatLt(ch.visChange, Rat(0 - 10, 1)) THEN "traffic"
                     ELSE IF RatLt(ch.aovChange, Rat(0 - 10, 1)) THEN "orderValue"
                     ELSE IF RatLt(ch.roiChange, Rat(0, 1)) THEN "adsEfficiency"
                     ELSE "fullAudit"
                ELSE IF RatLt(Rat(0, 1), ch.roiChange) THEN "scaling"
                     ELSE "salesUpRoiDown"
    IN  [comment |-> text, action |-> text]

\* DIAGNOSIS ENGINE V2: saleComment and saleAction of the report.
saleDiagnosis(c, p) ==
    LET ch == changes(c, p)
        text == IF RatLt(ch.saleChange, Rat(0, 1))
                THEN IF RatLt(ch.visChange, Rat(0 - 10, 1)) THEN "traffic"
                     ELSE IF RatLt(ch.crChange, Rat(0 - 10, 1)) THEN "conversion"
                     ELSE IF RatLt(ch.aovChange, Rat(0 - 10, 1)) THEN "orderValue"
                     ELSE IF RatLt(ch.roiChange, Rat(0, 1)) THEN "adsEfficiency"
                     ELSE "fullAudit"
                ELSE IF RatLt(Rat(0, 1), ch.roiChange) THEN "scaling"
                     ELSE "salesUpRoiDown"
    IN  [comment |-> text, action |-> text]

\* useMemo of report, once currentData and comparisonData are set.
Report ==
    /\ diag.mounted
    /\ diag.report = <<>>
    /\ diag' = [diag EXCEPT !.report = <<saleDiagnosis(diag.c, diag.p)>>]
    /\ UNCHANGED <<serverVars, tz, funnel, dash, reports, job, analysis, sheet, worker>>

InitDiag ==
    /\ records = {}
    /\ nextId = 1
    /\ lastImportBackup = <<>>
    /\ req = [op |-> "none"]
    /\ resp = [status |-> 0, code |-> ""]
    /\ tz = 0
    /\ funnel = [status |-> 0]
    /\ dash = [mounted |-> FALSE]
    /\ reports = <<>>
    /\ job = [pc |-> "idle"]
    /\ analysis = [mounted |-> FALSE]
    /\ \E c \in Summaries, p \in Summaries :
         diag = [mounted |-> TRUE, c |-> c, p |-> p, report |-> <<>>]
    /\ sheet = [status |-> 0]
    /\ worker = [status |-> 0]

NextDiag == Report

SpecDiag == InitDiag /\ [][NextDiag]_vars

\* The percentage by which curr differs from prev is below the limit
\* (prev > 0; with prev = 0 the change counts as 100 or 0, never negative).
Below(currNum, currDen, prevNum, prevDen, limit) ==
    /\ prevNum > 0
    /\ 100 * (currNum * prevDen - prevNum * currDen) < limit * currDen * prevNum

\* C13: the sale diagnosis is the first match of: sale change < 0 and
\* visitor change < -10: traffic; conversion-rate change < -10: conversion;
\* AOV change < -10: order value; ROI change < 0: ads efficiency; else full
\* audit; sale change >= 0 and ROI change > 0: scaling; else 'sales up but
\* ROI down'.  Comment and recommendation come from the same rule.
C13_Diagnosis ==
    (diag.mounted /\ diag.report # <<>>) =>
        LET c == diag.c
            p == diag.p
            r == diag.report[1]
            saleDown == Below(c.totalSale, 1, p.totalSale, 1, 0)
            visDown == Below(c.visitor, 1, p.visitor, 1, 0 - 10)
            crDown == /\ c.visitor > 0 /\ p.visitor > 0
                      /\ Below(c.customers, c.visitor, p.customers, p.visitor, 0 - 10)
            crLost == c.visitor = 0 /\ p.visitor > 0 /\ p.customers > 0
            aovDown == /\ c.customers > 0 /\ p.customers > 0
                       /\ Below(c.totalSale, c.customers, p.totalSale, p.customers, 0 - 10)
            aovLost == c.customers = 0 /\ p.customers > 0 /\ p.totalSale > 0
            roiOf(x) == IF x.totalAdsSpend > 0 THEN x.totalSale ELSE 0
            denOf(x) == IF x.totalAdsSpend > 0 THEN x.totalAdsSpend ELSE 1
            roiDown == Below(roiOf(c), denOf(c), roiOf(p), denOf(p), 0)
            roiUp == IF roiOf(p) = 0 THEN roiOf(c) > 0
                     ELSE roiOf(c) * denOf(p) > roiOf(p) * denOf(c)
            expected ==
                IF saleDown
                THEN IF visDown THEN "traffic"
                     ELSE IF crDown \/ crLost THEN "conversion"
                     ELSE IF aovDown \/ aovLost THEN "orderValue"
                     ELSE IF roiDown THEN "adsEfficiency"
                     ELSE "fullAudit"
                ELSE IF roiUp THEN "scaling" ELSE "salesUpRoiDown"
        IN  /\ r.comment = expected
            /\ r.action = expected
            /\ r.comment \in Texts

\* The order-value alert was selected with traffic down by exactly 10 %.
C13_Witness ==
    /\ diag.mounted /\ diag.report # <<>>
    /\ diag.report[1].comment = "orderValue"
    /\ diag.c.visitor = 9 /\ diag.p.visitor = 10

----------------------------------------------------------------------------
(* Confirm import interleaved with POST /api/records (SpecRace) *)

\* The handler of POST /api/import/confirm runs from one await to the next;
\* between two awaits another request may be handled.  job holds the locals
\* of the running import: pc, month, existingRecords, the validRows still to
\* create, importedIds, and deleted, the rows its deleteMany removed.

RaceFiles == {<<R_ok0>>, <<R_zero0, R_neg1>>}
RaceBodies == {Body(DateStr(0), V_ok), Body(DateStr(1), V_zero)}

\* Validation and STEP 1: findMany of the month's records.
ConfirmRead ==
    /\ job.pc = "idle"
    /\ \E file \in RaceFiles, month \in Months :
       \E existingRecords \in Orders(InMonth(records, month)) :
            job' = [pc |-> "read", month |-> month,
                    existingRecords |-> existingRecords,
                    rest |-> confirmValidRows(dataRows(file), month),
                    importedIds |-> <<>>, deleted |-> {}]
    /\ UNCHANGED <<serverVars, tz, funnel, dash, reports, analysis, diag, sheet, worker>>

\* STEP 2: deleteMany of the month's records.
ConfirmDelete ==
    /\ job.pc = "read"
    /\ records' = records \ InMonth(records, job.month)
    /\ job' = [job EXCEPT !.pc = "deleted", !.deleted = InMonth(records, job.month)]
    /\ UNCHANGED <<nextId, lastImportBackup, req, resp, tz, funnel, dash,
                   reports, analysis, diag, sheet, worker>>

\* STEP 3: one create of the loop; a refused create is caught and answered 500.
ConfirmCreate ==
    /\ job.pc = "deleted"
    /\ job.rest # <<>>
    /\ nextId <= MaxId
    /\ LET row == Head(job.rest)
       IN  IF DateTaken(records, row.date)
           THEN /\ job' = [job EXCEPT !.pc = "idle"]
                /\ req' = [op |-> "confirm"]
                /\ resp' = [status |-> 500, code |-> "error"]
                /\ UNCHANGED <<records, nextId>>
           ELSE /\ records' = records \cup {Row(nextId, row.date, row.v)}
                /\ nextId' = nextId + 1
                /\ job' = [job EXCEPT !.rest = Tail(job.rest),
                                      !.importedIds = Append(job.importedIds, nextId)]
                /\ UNCHANGED <<req, resp>>
    /\ UNCHANGED <<lastImportBackup, tz, funnel, dash, reports, analysis, diag,
                   sheet, worker>>

\* STEP 4: store the backup and answer.
ConfirmStore ==
    /\ job.pc = "deleted"
    /\ job.rest = <<>>
    /\ lastImportBackup' = <<[month |-> job.month, records |-> job.existingRecords,
                              importedIds |-> job.importedIds]>>
    /\ job' = [job EXCEPT !.pc = "idle"]
    /\ req' = [op |-> "confirm"]
    /\ resp' = [status |-> 200, code |-> "import"]
    /\ UNCHANGED <<records, nextId, tz, funnel, dash, reports, analysis, diag,
                   sheet, worker>>

\* POST /api/records, handled while an import runs or while none does.
RacePostRecords == \E body \in RaceBodies : PostRecordsWith(body)

NextRace ==
    \/ ConfirmRead
    \/ ConfirmDelete
    \/ ConfirmCreate
    \/ ConfirmStore
    \/ RacePostRecords

SpecRace == Init /\ [][NextRace]_vars

\* C14: every record a confirm import deletes is in the snapshot the import
\* stores for undo, also when a POST /api/records of the same month runs
\* between the import's read and its delete.
C14_Step ==
    (job.pc = "deleted" /\ job'.pc = "idle" /\ resp'.status = 200) =>
        job.deleted \subseteq Range(lastImportBackup'[1].records)

C14_BackupBeforeOverwrite == [][C14_Step]_vars

----------------------------------------------------------------------------
(* Import preview of a spreadsheet (SpecSheet) *)

\* A row without a date cell (an empty line of the sheet, or a line whose
\* first cell is empty): sheet_to_json returns it, dataRows drops it.
R_blank == SheetRow(BlankCell, Cells(V_zero))

SheetRows == {R_ok0, R_zero0, R_bad0, R_blank, R_cust31}

\* The sheets of up to n rows below the header.
RECURSIVE SheetsUpTo(_)
SheetsUpTo(n) ==
    IF n = 0 THEN {<<>>}
    ELSE SheetsUpTo(n - 1)
         \cup {Append(f, r) : f \in {g \in SheetsUpTo(n - 1) : Len(g) = n - 1},
                              r \in SheetRows}

\* POST /api/import/preview with the file and the month of the upload form;
\* its answer is kept with the file.
PreviewSheet ==
    /\ sheet.status = 0
    /\ sheet' = [sheet EXCEPT !.status = 200,
                              !.preview = <<preview(records, sheet.file, sheet.month)>>]
    /\ UNCHANGED <<serverVars, tz, funnel, dash, reports, job, analysis, diag, worker>>

InitSheet ==
    /\ records = {}
    /\ nextId = 1
    /\ lastImportBackup = <<>>
    /\ req = [op |-> "none"]
    /\ resp = [status |-> 0, code |-> ""]
    /\ tz = 0
    /\ funnel = [status |-> 0]
    /\ dash = [mounted |-> FALSE]
    /\ reports = <<>>
    /\ job = [pc |-> "idle"]
    /\ analysis = [mounted |-> FALSE]
    /\ diag = [mounted |-> FALSE]
    /\ \E file \in SheetsUpTo(MaxRows), month \in Months :
         sheet = [status |-> 0, file |-> file, month |-> month, preview |-> <<>>]
    /\ worker = [status |-> 0]

NextSheet == PreviewSheet

SpecSheet == InitSheet /\ [][NextSheet]_vars

\* The rows of the file that carry a date cell and that the validation of
\* preview accepts, by their position in the file.
AcceptedAt(file, month) ==
    {i \in 1..Len(file) : file[i].date.k # "blank" /\ previewReason(file[i], month) = ""}

\* C17: every error entry of a preview carries the spreadsheet row number of
\* the row it is about, the header being row 1 and file[i] row i + 1: a
\* rejected row is reported with its own number and reason, a row whose date
\* an earlier accepted row has is reported as 'Duplicate date in file' with
\* its own number, and nothing else is reported.
C17_ErrorRowNumbers ==
    sheet.status = 200 =>
        LET file == sheet.file
            month == sheet.month
            accepted == AcceptedAt(file, month)
            rejected == {[row |-> i + 1, reason |-> previewReason(file[i], month)] :
                            i \in {j \in 1..Len(file) :
                                     /\ file[j].date.k # "blank"
                                     /\ previewReason(file[j], month) # ""}}
            duplicates == {[row |-> i + 1, reason |-> "Duplicate date in file"] :
                            i \in {j \in accepted :
                                     \E k \in accepted :
                                        k < j /\ file[k].date.d = file[j].date.d}}
        IN  Range(sheet.preview[1].errors) = rejected \cup duplicates

\* C18: in every preview result validRows + invalidRows = totalRowsInFile.
C18_RowsCountedOnce ==
    sheet.status = 200 =>
        sheet.preview[1].validRows + sheet.preview[1].invalidRows
            = sheet.preview[1].totalRowsInFile

----------------------------------------------------------------------------
(* Publishing reports from the Auto Analysis page (SpecReports) *)

\* The date ranges selected on the page: three weeks of January 2026, the
\* last of them the range the page starts with.
DefaultRange == <<DateOf(14), DateOf(20)>>
Ranges == {<<DateOf(0), DateOf(6)>>, <<DateOf(7), DateOf(13)>>, DefaultRange}

\* `${dateRange[0].toISOString()}_${dateRange[1].toISOString()}`
rangeKey(dateRange) == <<Iso(dateRange[1]), Iso(dateRange[2])>>

\* The requests of the page reach the routes /api/reports/check and
\* /api/reports of the server, sent with the token of an administrator.

\* GET /api/reports/check: a report of the range and the version exists.
reportsCheck(rp, startDate, endDate, version) ==
    \E i \in 1..Len(rp) :
        /\ rp[i].startDate = startDate.t
        /\ rp[i].endDate = endDate.t
        /\ rp[i].version = (IF version = 0 THEN 1 ELSE version)

\* The autoPublish effect: the table and lastPublishedRange after it.
autoPublish(rp, dateRange, lastPublishedRange) ==
    IF lastPublishedRange = <<rangeKey(dateRange)>>
    THEN [reports |-> rp, lastPublishedRange |-> lastPublishedRange]
    ELSE IF reportsCheck(rp, Iso(dateRange[1]), Iso(dateRange[2]), 1)
    THEN [reports |-> rp, lastPublishedRange |-> <<rangeKey(dateRange)>>]
    ELSE [reports |-> postReports(rp, [startDate |-> Iso(dateRange[1]),
                                        endDate |-> Iso(dateRange[2]),
                                        version |-> 1]).reports,
          lastPublishedRange |-> <<rangeKey(dateRange)>>]

\* The page after its dateRange was set: fetchData resets currentVersion to 1
\* and the autoPublish effect runs on the new report.
Selected(dateRange, lastPublishedRange) ==
    LET a == autoPublish(reports, dateRange, lastPublishedRange)
    IN  /\ Len(a.reports) <= MaxReports
        /\ reports' = a.reports
        /\ analysis' = [mounted |-> TRUE, dateRange |-> dateRange,
                        currentVersion |-> 1,
                        lastPublishedRange |-> a.lastPublishedRange]
        /\ UNCHANGED <<serverVars, tz, funnel, dash, job, diag, sheet, worker>>

\* The page is loaded or reloaded: all its state starts afresh.
MountAnalysis == Selected(DefaultRange, <<>>)

\* setDateRange of the picker.
SetDateRange ==
    /\ analysis.mounted
    /\ \E dateRange \in Ranges \ {analysis.dateRange} :
         Selected(dateRange, analysis.lastPublishedRange)

\* handlePublishNewVersion: the table and currentVersion after it.
handlePublishNewVersion(rp, dateRange, currentVersion) ==
    LET nextVersion == currentVersion + 1
        res == postReports(rp, [startDate |-> Iso(dateRange[1]),
                                endDate |-> Iso(dateRange[2]),
                                version |-> nextVersion])
    IN  [reports |-> res.reports,
         currentVersion |-> IF res.status = 200 THEN nextVersion ELSE currentVersion]

HandlePublishNewVersion ==
    /\ analysis.mounted
    /\ LET res == handlePublishNewVersion(reports, analysis.dateRange,
                                          analysis.currentVersion)
       IN  /\ Len(res.reports) <= MaxReports
           /\ reports' = res.reports
           /\ analysis' = [analysis EXCEPT !.currentVersion = res.currentVersion]
    /\ UNCHANGED <<serverVars, tz, funnel, dash, job, diag, sheet, worker>>

NextReports ==
    \/ MountAnalysis
    \/ SetDateRange
    \/ HandlePublishNewVersion

SpecReports == Init /\ [][NextReports]_vars

\* C19: no two stored reports have the same startDate, endDate and version,
\* also after the date range was selected again or the page was reloaded.
C19_ReportVersionsUnique ==
    \A i \in 1..Len(reports) : \A j \in 1..Len(reports) :
        (/\ reports[i].startDate = reports[j].startDate
         /\ reports[i].endDate = reports[j].endDate
         /\ reports[i].version = reports[j].version) => i = j

----------------------------------------------------------------------------
(* GET /api/funnel-metrics of the Worker (SpecWorker) *)

\* Math.abs of a difference of two times.
AbsDur(dur) == IF dur.d < 0 THEN Norm(0 - dur.d, 0 - dur.ms) ELSE dur

\* Math.ceil(dur / (1000 * 60 * 60 * 24))
CeilDays(dur) == IF dur.ms > 0 THEN dur.d + 1 ELSE dur.d

\* The previous range of the Worker: prevEnd is the end of the day before
\* start; prevStart is prevEnd moved back by diffDays - 1 days, its time of
\* day left as it is.
workerPreviousRange(start, end, z) ==
    LET diffTime == AbsDur(TDiff(end, start))
        diffDays == CeilDays(diffTime)
        prevEnd == EndOfDay(AddDays(start, 0 - 1, z), z)
        prevStart == AddDays(prevEnd, 0 - (IF diffDays > 0 THEN diffDays - 1 ELSE 0), z)
    IN  [prevStart |-> prevStart, prevEnd |-> prevEnd]

workerFunnelMetrics(startDate, endDate, z) ==
    LET start == DateOf(startDate)
        end == EndOfDay(DateOf(endDate), z)
        prev == workerPreviousRange(start, end, z)
    IN  [status |-> 200, startDate |-> startDate, endDate |-> endDate,
         start |-> start, end |-> end,
         prevStart |-> prev.prevStart, prevEnd |-> prev.prevEnd]

WorkerFunnelMetrics ==
    /\ \/ \* startDate or endDate missing
          worker' = [status |-> 400]
       \/ \E startDate \in QueryDays, endDate \in QueryDays :
            worker' = workerFunnelMetrics(startDate, endDate, tz)
    /\ UNCHANGED <<serverVars, tz, funnel, dash, reports, job, analysis, diag, sheet>>

InitWorker ==
    /\ records = {}
    /\ nextId = 1
    /\ lastImportBackup = <<>>
    /\ req = [op |-> "none"]
    /\ resp = [status |-> 0, code |-> ""]
    /\ tz \in TZOffsets
    /\ funnel = [status |-> 0]
    /\ dash = [mounted |-> FALSE]
    /\ InitMore

NextWorker == WorkerFunnelMetrics

SpecWorker == InitWorker /\ [][NextWorker]_vars

\* C20: for the same startDate <= endDate the 'previous' aggregate of the
\* Worker sums the stored dates the Express implementation sums: as many
\* days as the current period has, the last of them the day before startDate.
C20_WorkerPreviousPeriod ==
    (worker.status = 200 /\ worker.startDate <= worker.endDate) =>
        LET express == funnelMetrics(worker.startDate, worker.endDate, tz)
            cur == DaysIn(worker.start, worker.end)
            prev == DaysIn(worker.prevStart, worker.prevEnd)
        IN  /\ prev = DaysIn(express.pStart, express.pEnd)
            /\ Cardinality(prev) = Cardinality(cur)
            /\ worker.startDate - 1 \in prev
            /\ \A d \in prev : d < worker.startDate

----------------------------------------------------------------------------
(* GET /api/summary (SpecSummary) *)

\* where: { date: { gte: startDate, lt: endDate } }, startDate being
\* new Date(start) and endDate new Date(end) moved on by one day.
summaryWhere(rs, start, end, z) ==
    LET startDate == DateOf(start)
        endDate == AddDays(DateOf(end), 1, z)
    IN  {r \in rs : TLe(startDate, DateOf(r.date)) /\ ~TLe(endDate, DateOf(r.date))}

\* The forEach that adds the metrics of the records to the five totals.
RECURSIVE aggregate(_, _)
aggregate(recs, acc) ==
    IF recs = <<>> THEN acc
    ELSE LET m == calculateMetrics(Head(recs))
         IN  aggregate(Tail(recs),
                [totalSale |-> acc.totalSale + m.record.totalSale,
                 totalAdsSpend |-> acc.totalAdsSpend + m.totalAdsSpend,
                 totalSaleGmv |-> acc.totalSaleGmv + m.record.totalSaleGmv,
                 totalLiveGmv |-> acc.totalLiveGmv + m.record.gmvSaleLive,
                 totalDirectShop |-> acc.totalDirectShop + m.directShopSale])

\* The response of GET /api/summary for the array findMany returned.
getSummary(recs) ==
    LET t == aggregate(recs, [totalSale |-> 0, totalAdsSpend |-> 0, totalSaleGmv |-> 0,
                              totalLiveGmv |-> 0, totalDirectShop |-> 0])
    IN  [status |-> 200, code |-> "summary",
         totalSale |-> t.totalSale, totalAdsSpend |-> t.totalAdsSpend,
         roiTotal |-> IF t.totalAdsSpend > 0
                      THEN Rat(t.totalSale, t.totalAdsSpend) ELSE Rat(0, 1),
         roiGmv |-> IF t.totalAdsSpend > 0
                    THEN Rat(t.totalSaleGmv, t.totalAdsSpend) ELSE Rat(0, 1),
         totalSaleGmv |-> t.totalSaleGmv, totalLiveGmv |-> t.totalLiveGmv,
         totalDirectShop |-> t.totalDirectShop]

GetSummary ==
    /\ \/ \* start or end missing
          /\ req' = [op |-> "summary"]
          /\ resp' = [status |-> 400, code |-> "error"]
       \/ \E start \in Days, end \in Days :
          \E recs \in Orders(summaryWhere(records, start, end, tz)) :
            /\ req' = [op |-> "summary", start |-> start, end |-> end]
            /\ resp' = getSummary(recs)
    /\ UNCHANGED <<records, nextId, lastImportBackup, tz, funnel, dash, moreVars>>

\* The records of SpecSummary: days with different sales and spends, posted
\* one by one or imported from a sheet.
V_big    == Vals(7, 4, 1, 2, 1, 1, 1, 2, 1)
V_negAds == Vals(2, 1, 1, 1, 1, -3, 1, 2, 1)    \* negative ttamSpendAds

SummaryBodies ==
    {Body(DateStr(0), V_ok), Body(DateStr(1), V_big), Body(DateStr(31), V_zero)}

SummaryFiles == {<<SheetRow(DateStr(1), Cells(V_negAds))>>}

SummaryPostRecords == \E body \in SummaryBodies : PostRecordsWith(body)

SummaryImportConfirm ==
    \E file \in SummaryFiles :
    \E existingRecords \in Orders(InMonth(records, 1)) :
        ImportConfirmWith(file, 1, existingRecords)

NextSummary ==
    \/ SummaryPostRecords
    \/ SummaryImportConfirm
    \/ GetSummary

SpecSummary == Init /\ [][NextSummary]_vars

\* The sum of a field over a set of records.
RECURSIVE SumOf(_, _)
SumOf(S, f) ==
    IF S = {} THEN 0
    ELSE LET r == CHOOSE x \in S : TRUE IN r[f] + SumOf(S \ {r}, f)

\* C21: GET /api/summary for start..end aggregates exactly the records whose
\* date is in the inclusive day range [start, end]: the five totals are the
\* sums over those records, totalSale = totalSaleGmv + totalDirectShop, and
\* roiTotal and roiGmv are the quotients of the sums, 0 when the summed ads
\* spend is 0.
C21_SummaryAggregates ==
    (req.op = "summary" /\ resp.status = 200) =>
        LET sel == {r \in records : req.start <= r.date /\ r.date <= req.end}
            sale == SumOf(sel, "totalSale")
            gmv == SumOf(sel, "totalSaleGmv")
            live == SumOf(sel, "gmvSaleLive")
            ads == SumOf(sel, "gmvAdsSpend") + SumOf(sel, "ttamSpendAds")
        IN  /\ resp.totalSale = sale
            /\ resp.totalSaleGmv = gmv
            /\ resp.totalLiveGmv = live
            /\ resp.totalAdsSpend = ads
            /\ resp.totalDirectShop = sale - gmv
            /\ resp.totalSale = resp.totalSaleGmv + resp.totalDirectShop
            /\ RatEq(resp.roiTotal, IF ads = 0 THEN Rat(0, 1) ELSE Rat(sale, ads))
            /\ RatEq(resp.roiGmv, IF ads = 0 THEN Rat(0, 1) ELSE Rat(gmv, ads))

====
